---- MODULE Spec2Model ----
(***************************************************************************)
(* build.js: fetch five Airtable tables, compute singles and doubles       *)
(* standings, write data/standings.json.                                   *)
(*                                                                         *)
(* Conventions of the model                                                *)
(*  - A record of a table is [id |-> ..., fields |-> f], f a function from  *)
(*    field names to values; a field the service did not send is a key     *)
(*    that is not in DOMAIN f (JavaScript's undefined).                    *)
(*  - A string that the code compares or tests for emptiness (a name) is a *)
(*    sequence of one-character strings; << >> is the empty string.        *)
(*  - An instant is [y, mo, d, t]: calendar year, month 0..11, day of the  *)
(*    month and the offset t inside the day in clock ticks (UTC, the time  *)
(*    zone of the runner).                                                 *)
(***************************************************************************)
EXTENDS Integers, Sequences, FiniteSets, TLC

VARIABLES
    pc,               \* position of main(): start, fetching, singles_filter, ...
    apiKey,           \* process.env.AIRTABLE_API_KEY
    now,              \* the last value the system clock returned
    server,           \* the remote service: table -> sequence of pages
    fpc,              \* per table: position of its airtableFetch call
    offset,           \* per table: the local variable offset
    allRecords,       \* per table: the local variable allRecords
    res,              \* per table: the response being handled
    requests,         \* every HTTP request issued, in order
    players, matches, doublesTeams, doublesMatches, matchTypes,
    matchTypesMap,
    fi,               \* index of the match Array.filter examines next
    ai,               \* index of the active match forEach processes next
    activeMatches, cutoffs,
    pointsMap, winsMap, lossesMap,
    singlesStandings, doublesStandings,
    outFile,          \* content of data/standings.json
    rejection,        \* the reason Promise.all rejected with, NoError before
    exitCode, err

vars == <<pc, apiKey, now, server, fpc, offset, allRecords, res, requests,
          players, matches, doublesTeams, doublesMatches, matchTypes,
          matchTypesMap, fi, ai, activeMatches, cutoffs,
          pointsMap, winsMap, lossesMap,
          singlesStandings, doublesStandings, outFile, rejection, exitCode, err>>

(***************************************************************************)
(* CONFIG                                                                  *)
(***************************************************************************)
EXPIRY_MONTHS == 6

\* 0.10 as a ratio
LOSER_POINT_FRACTION == [num |-> 1, den |-> 10]

TABLES == <<"PLAYERS", "MATCHES", "DOUBLES_TEAMS", "DOUBLES_MATCHES", "MATCH_TYPES">>

TableSet == {TABLES[i] : i \in DOMAIN TABLES}

(***************************************************************************)
(* Bounds of the model                                                     *)
(***************************************************************************)
MaxMatches == 2

MaxTick == 1

MaxPageSize == 2

MaxTypes == 2

(***************************************************************************)
(* JavaScript values                                                       *)
(***************************************************************************)
EmptyMap == [x \in {} |-> 0]

Null == [kind |-> "null"]

Undefined == [kind |-> "undefined"]

Range(s) == {s[i] : i \in DOMAIN s}

HasField(r, k) == k \in DOMAIN r.fields

\* (r.fields[k] || [])
ListField(r, k) == IF HasField(r, k) THEN r.fields[k] ELSE << >>

\* (r.fields[k] || 0) for a numeric field
NumField(r, k) == IF HasField(r, k) THEN r.fields[k] ELSE 0

Unknown == <<"U", "n", "k", "n", "o", "w", "n">>

\* (r.fields[k] || 'Unknown'): the empty string is falsy
NameField(r, k) ==
    IF HasField(r, k) /\ r.fields[k] # << >> THEN r.fields[k] ELSE Unknown

\* (map[id] || 0)
Get(map, id) == IF id \in DOMAIN map THEN map[id] ELSE 0

\* map[id] = v
Put(map, id, v) == (id :> v) @@ map

(***************************************************************************)
(* Dates                                                                   *)
(***************************************************************************)
IsLeap(y) == (y % 4 = 0 /\ y % 100 # 0) \/ y % 400 = 0

DaysInMonth(y, mo) ==
    IF mo = 1 THEN (IF IsLeap(y) THEN 29 ELSE 28)
    ELSE IF mo \in {3, 5, 8, 10} THEN 30 ELSE 31

\* Date.prototype.setMonth: the month is taken modulo 12 into the year, and a
\* day of the month the target month does not have runs over into the next one
RECURSIVE MakeDate(_, _, _, _)
MakeDate(y, mo, d, t) ==
    LET ym == y + (mo \div 12)
        mn == mo % 12
    IN IF d > DaysInMonth(ym, mn)
       THEN MakeDate(ym, mn + 1, d - DaysInMonth(ym, mn), t)
       ELSE [y |-> ym, mo |-> mn, d |-> d, t |-> t]

getCutoffDate(clock) == MakeDate(clock.y, clock.mo - EXPIRY_MONTHS, clock.d, clock.t)

\* a >= b on instants
DateGE(a, b) ==
    \/ a.y > b.y
    \/ a.y = b.y /\ a.mo > b.mo
    \/ a.y = b.y /\ a.mo = b.mo /\ a.d > b.d
    \/ a.y = b.y /\ a.mo = b.mo /\ a.d = b.d /\ a.t >= b.t

\* a date string of the service: [kind |-> "iso", y, m (1..12), d, t],
\* [kind |-> "empty"] for "" and [kind |-> "bad"] for text Date cannot parse
Falsy(dateStr) == dateStr.kind \in {"undefined", "null", "empty"}

\* new Date(dateStr) for a parseable string
ParseDate(dateStr) ==
    [y |-> dateStr.y, mo |-> dateStr.m - 1, d |-> dateStr.d, t |-> dateStr.t]

\* new Date(dateStr) >= cutoff is false for an Invalid Date
isWithinWindow(dateStr, clock) ==
    IF Falsy(dateStr) THEN TRUE
    ELSE IF dateStr.kind = "bad" THEN FALSE
    ELSE DateGE(ParseDate(dateStr), getCutoffDate(clock))

DateOf(m) == IF HasField(m, "Date") THEN m.fields["Date"] ELSE Undefined

\* what a read of the clock can return after it returned clock
ClockReads(clock) ==
    {clock} \cup (IF clock.t < MaxTick THEN {[clock EXCEPT !.t = clock.t + 1]} ELSE {})

(***************************************************************************)
(* String.prototype.localeCompare (root collation): letters compare by     *)
(* their place in the alphabet whatever their case; strings equal at that  *)
(* level compare by case, lower case first.                                *)
(***************************************************************************)
Primary(c) ==
    CASE c \in {"a", "A"} -> 1
      [] c \in {"b", "B"} -> 2
      [] c \in {"e", "E"} -> 5
      [] c \in {"k", "K"} -> 11
      [] c \in {"n", "N"} -> 14
      [] c \in {"o", "O"} -> 15
      [] c \in {"u", "U"} -> 21
      [] c \in {"w", "W"} -> 23

Tertiary(c) == IF c \in {"A", "B", "E", "K", "N", "O", "U", "W"} THEN 1 ELSE 0

\* the order of two sequences of collation weights
RECURSIVE LexCompare(_, _)
LexCompare(a, b) ==
    IF a = << >> /\ b = << >> THEN 0
    ELSE IF a = << >> THEN -1
    ELSE IF b = << >> THEN 1
    ELSE IF Head(a) < Head(b) THEN -1
    ELSE IF Head(a) > Head(b) THEN 1
    ELSE LexCompare(Tail(a), Tail(b))

PrimaryKey(str) == [i \in DOMAIN str |-> Primary(str[i])]

TertiaryKey(str) == [i \in DOMAIN str |-> Tertiary(str[i])]

localeCompare(a, b) ==
    IF LexCompare(PrimaryKey(a), PrimaryKey(b)) # 0
    THEN LexCompare(PrimaryKey(a), PrimaryKey(b))
    ELSE LexCompare(TertiaryKey(a), TertiaryKey(b))

(***************************************************************************)
(* calculateSinglesStandings / calculateDoublesStandings                   *)
(***************************************************************************)
\* the loser's share cut off instead of rounded (Math.floor)
LoserPointsFloor(pts) ==
    (pts * LOSER_POINT_FRACTION.num) \div LOSER_POINT_FRACTION.den

\* Math.round(pts * CONFIG.LOSER_POINT_FRACTION): floor(x + 0.5)
LoserPoints(pts) ==
    (2 * pts * LOSER_POINT_FRACTION.num + LOSER_POINT_FRACTION.den)
        \div (2 * LOSER_POINT_FRACTION.den)

\* entities.forEach(p => { pointsMap[p.id] = 0; ... })
RECURSIVE ZeroMap(_)
ZeroMap(entities) ==
    IF entities = << >> THEN EmptyMap
    ELSE Put(ZeroMap(Tail(entities)), Head(entities).id, 0)

\* ids.forEach(id => { map[id] = (map[id] || 0) + delta })
RECURSIVE AddEach(_, _, _)
AddEach(map, ids, delta) ==
    IF ids = << >> THEN map
    ELSE AddEach(Put(map, Head(ids), Get(map, Head(ids)) + delta), Tail(ids), delta)

\* the match type of m is resolved: the forEach callback does not return early
Resolved(m, mtMap) ==
    /\ HasField(m, "Match Type")
    /\ Len(m.fields["Match Type"]) # 0
    /\ m.fields["Match Type"][1] \in DOMAIN mtMap

\* the callback without its early returns: a match of no known type counts
\* for 0 points
ApplyMatchNoSkip(acc, m, mtMap, winField, loseField) ==
    LET pts == IF Resolved(m, mtMap)
               THEN NumField(mtMap[m.fields["Match Type"][1]], "Default Points Awarded")
               ELSE 0
        winners == ListField(m, winField)
        losers == ListField(m, loseField)
    IN [points |-> AddEach(AddEach(acc.points, winners, pts), losers, LoserPoints(pts)),
        wins   |-> AddEach(acc.wins, winners, 1),
        losses |-> AddEach(acc.losses, losers, 1)]

\* the callback with the winner and the loser list taken for each other
ApplyMatchSwapped(acc, m, mtMap, winField, loseField) ==
    IF ~Resolved(m, mtMap) THEN acc
    ELSE LET mt == mtMap[m.fields["Match Type"][1]]
             pts == NumField(mt, "Default Points Awarded")
             winners == ListField(m, loseField)
             losers == ListField(m, winField)
         IN [points |-> AddEach(AddEach(acc.points, winners, pts), losers, LoserPoints(pts)),
             wins   |-> AddEach(acc.wins, winners, 1),
             losses |-> AddEach(acc.losses, losers, 1)]

\* one call of the activeMatches.forEach callback on the three maps
ApplyMatch(acc, m, mtMap, winField, loseField) ==
    IF ~Resolved(m, mtMap) THEN acc
    ELSE LET mt == mtMap[m.fields["Match Type"][1]]
             pts == NumField(mt, "Default Points Awarded")
             winners == ListField(m, winField)
             losers == ListField(m, loseField)
         IN [points |-> AddEach(AddEach(acc.points, winners, pts), losers, LoserPoints(pts)),
             wins   |-> AddEach(acc.wins, winners, 1),
             losses |-> AddEach(acc.losses, losers, 1)]

RECURSIVE KeysSeq(_)
KeysSeq(keys) ==
    IF keys = {} THEN << >>
    ELSE LET k == CHOOSE k \in keys : TRUE IN <<k>> \o KeysSeq(keys \ {k})

\* one row per key of the points map (Object.keys(pointsMap).map(...)) instead
\* of one per entity
RowsOfAllKeys(entities, acc, nameField) ==
    LET extra == KeysSeq(DOMAIN acc.points \ {entities[i].id : i \in DOMAIN entities})
    IN [i \in DOMAIN entities |->
            [name   |-> NameField(entities[i], nameField),
             points |-> Get(acc.points, entities[i].id),
             wins   |-> Get(acc.wins, entities[i].id),
             losses |-> Get(acc.losses, entities[i].id)]]
       \o [i \in DOMAIN extra |->
            [name   |-> Unknown,
             points |-> Get(acc.points, extra[i]),
             wins   |-> Get(acc.wins, extra[i]),
             losses |-> Get(acc.losses, extra[i])]]

\* entities.map(p => ({name, points, wins, losses}))
Rows(entities, acc, nameField) ==
    [i \in DOMAIN entities |->
        [name   |-> NameField(entities[i], nameField),
         points |-> Get(acc.points, entities[i].id),
         wins   |-> Get(acc.wins, entities[i].id),
         losses |-> Get(acc.losses, entities[i].id)]]

\* the standings comparator, losing the order of the points
CompareRowsAscending(a, b) ==
    IF a.points - b.points # 0 THEN a.points - b.points
    ELSE localeCompare(a.name, b.name)

\* (a, b) => b.points - a.points || a.name.localeCompare(b.name)
CompareRows(a, b) ==
    IF b.points - a.points # 0 THEN b.points - a.points
    ELSE localeCompare(a.name, b.name)

\* (a, b) => (a.fields['Default Points Awarded'] || 0) - (b.fields[...] || 0)
CompareTypes(a, b) ==
    NumField(a, "Default Points Awarded") - NumField(b, "Default Points Awarded")

\* the comparator of the standings sort ("rows") or of the match-type sort
Compare(which, a, b) ==
    IF which = "rows" THEN CompareRows(a, b) ELSE CompareTypes(a, b)

\* Array.prototype.sort is stable: x goes before the first element that
\* compares greater than it
RECURSIVE Insert(_, _, _)
Insert(which, sorted, x) ==
    IF sorted = << >> THEN <<x>>
    ELSE IF Compare(which, Head(sorted), x) > 0 THEN <<x>> \o sorted
    ELSE <<Head(sorted)>> \o Insert(which, Tail(sorted), x)

RECURSIVE SortBy(_, _)
SortBy(which, s) ==
    IF s = << >> THEN << >>
    ELSE Insert(which, SortBy(which, SubSeq(s, 1, Len(s) - 1)), s[Len(s)])

SortStandings(rows) == SortBy("rows", rows)

(***************************************************************************)
(* main: the match-type lookup and the report                              *)
(***************************************************************************)
\* matchTypes.forEach(r => { matchTypesMap[r.id] = r; })
RECURSIVE BuildMap(_)
BuildMap(records) ==
    IF records = << >> THEN EmptyMap
    ELSE Put(BuildMap(SubSeq(records, 1, Len(records) - 1)),
             records[Len(records)].id, records[Len(records)])

\* the filter callback, taking a flag that is sent for a flag that is set
IsActiveIfPresent(r) == HasField(r, "Is Active")

\* r => r.fields['Is Active']
IsActive(r) == HasField(r, "Is Active") /\ r.fields["Is Active"] = TRUE

\* matchTypes.filter(r => r.fields['Is Active'])
RECURSIVE FilterActive(_)
FilterActive(s) ==
    IF s = << >> THEN << >>
    ELSE (IF IsActive(Head(s)) THEN <<Head(s)>> ELSE << >>) \o FilterActive(Tail(s))

\* mt.fields['Id'] || mt.fields['Match Type'] || 'Unknown'
TypeName(mt) ==
    IF HasField(mt, "Id") /\ mt.fields["Id"] # << >> THEN mt.fields["Id"]
    ELSE NameField(mt, "Match Type")

TypeRow(mt) == [name |-> TypeName(mt), points |-> NumField(mt, "Default Points Awarded")]

matchTypeInfo(types) ==
    LET sorted == SortBy("types", FilterActive(types))
    IN [i \in DOMAIN sorted |-> TypeRow(sorted[i])]

NoFile == [kind |-> "absent"]

(***************************************************************************)
(* airtableFetch and the remote service                                    *)
(***************************************************************************)
Cursor(k) == [kind |-> "cursor", page |-> k]

\* the records of a table cut into pages of size records; every page but the
\* last carries the cursor of the next one
RECURSIVE Paginate(_, _, _)
Paginate(records, size, k) ==
    IF Len(records) <= size
    THEN <<[records |-> records, offset |-> Null]>>
    ELSE <<[records |-> SubSeq(records, 1, size), offset |-> Cursor(k + 1)]>>
         \o Paginate(SubSeq(records, size + 1, Len(records)), size, k + 1)

\* the page the service sends for a request with this offset parameter
PageFor(t, off) == server[t][IF off.kind = "cursor" THEN off.page ELSE 1]

\* the new page put in front of the pages before it
ConcatInFront(all, records) == records \o all

\* allRecords = allRecords.concat(data.records)
Concat(all, records) == all \o records

\* offset = data.offset || null
NextOffset(data) == IF data.offset.kind = "cursor" THEN data.offset ELSE Null

\* the non-success responses the service is taken to send
Failures == {[ok |-> FALSE, status |-> 500, text |-> "down"],
             [ok |-> FALSE, status |-> 404, text |-> "gone"]}

\* new Error(`Airtable error ${res.status}: ${text}`)
AirtableError(r) == [message |-> <<"Airtable error", r.status, r.text>>]

KeyError == [message |-> <<"AIRTABLE_API_KEY environment variable is required">>]

NoError == [message |-> << >>]

(***************************************************************************)
(* Actions of airtableFetch, one call per table                            *)
(***************************************************************************)
fetchVars == <<fpc, offset, allRecords, res, requests>>

inputVars == <<players, matches, doublesTeams, doublesMatches, matchTypes, matchTypesMap>>

aggVars == <<fi, ai, activeMatches, cutoffs, pointsMap, winsMap, lossesMap,
             singlesStandings, doublesStandings>>

exitVars == <<outFile, rejection, exitCode, err>>

\* main without the credential check
MainStartUnchecked ==
    /\ pc = "start"
    /\ pc' = "fetching"
    /\ fpc' = [t \in TableSet |-> "awaitFetch"]
    /\ offset' = [t \in TableSet |-> Null]
    /\ allRecords' = [t \in TableSet |-> << >>]
    /\ requests' = [t \in TableSet |-> <<Null>>]
    /\ UNCHANGED <<res, exitVars>>
    /\ UNCHANGED <<apiKey, now, server, inputVars, aggVars>>

\* main up to Promise.all: the credential check, then the five calls of
\* airtableFetch, each of which runs to its first await (the first request)
MainStart ==
    /\ pc = "start"
    /\ IF Falsy(apiKey)
       THEN /\ pc' = "exit"
            /\ exitCode' = 1
            /\ err' = KeyError
            /\ UNCHANGED <<fetchVars, outFile, rejection>>
       ELSE /\ pc' = "fetching"
            /\ fpc' = [t \in TableSet |-> "awaitFetch"]
            /\ offset' = [t \in TableSet |-> Null]
            /\ allRecords' = [t \in TableSet |-> << >>]
            /\ requests' = [t \in TableSet |-> <<Null>>]
            /\ UNCHANGED <<res, exitVars>>
    /\ UNCHANGED <<apiKey, now, server, inputVars, aggVars>>

\* await fetch(url, ...) resolves: the service answers the request with the
\* page the offset names, or with a non-success status
FetchResponse(t) ==
    /\ pc = "fetching"
    /\ fpc[t] = "awaitFetch"
    /\ \/ /\ res' = [res EXCEPT ![t] = [ok |-> TRUE, data |-> PageFor(t, offset[t])]]
          /\ fpc' = [fpc EXCEPT ![t] = "awaitJson"]
       \/ \E f \in Failures :
            /\ res' = [res EXCEPT ![t] = f]
            /\ fpc' = [fpc EXCEPT ![t] = "awaitText"]
    /\ UNCHANGED <<pc, apiKey, now, server, offset, allRecords, requests,
                   inputVars, aggVars, exitVars>>

\* the error caught inside airtableFetch, which returns the records it has
FetchThrowSwallowed(t) ==
    /\ pc = "fetching"
    /\ fpc[t] = "awaitText"
    /\ fpc' = [fpc EXCEPT ![t] = "resolved"]
    /\ UNCHANGED <<pc, apiKey, now, server, offset, allRecords, res, requests,
                   inputVars, aggVars, exitVars>>

\* await res.text() resolves and the error is thrown: the promise of this
\* airtableFetch call rejects. Promise.all takes the reason of the first
\* rejection; the jobs that carry it to the catch handler of main() are queued
\* behind the continuations of the other fetches, which still run
FetchThrow(t) ==
    /\ pc = "fetching"
    /\ fpc[t] = "awaitText"
    /\ fpc' = [fpc EXCEPT ![t] = "rejected"]
    /\ rejection' = IF rejection = NoError THEN AirtableError(res[t]) ELSE rejection
    /\ UNCHANGED <<pc, apiKey, now, server, offset, allRecords, res, requests,
                   inputVars, aggVars, outFile, exitCode, err>>

\* main().catch(err => { console.error(err); process.exit(1); }) after
\* Promise.all rejected
MainCatch ==
    /\ pc = "fetching"
    /\ rejection # NoError
    /\ pc' = "exit"
    /\ exitCode' = 1
    /\ err' = rejection
    /\ UNCHANGED <<apiKey, now, server, fetchVars, inputVars, aggVars, outFile, rejection>>

\* await res.json() resolves: concat, take the cursor, loop or return
FetchJson(t) ==
    /\ pc = "fetching"
    /\ fpc[t] = "awaitJson"
    /\ allRecords' = [allRecords EXCEPT ![t] = Concat(allRecords[t], res[t].data.records)]
    /\ offset' = [offset EXCEPT ![t] = NextOffset(res[t].data)]
    /\ IF NextOffset(res[t].data).kind = "cursor"
       THEN /\ fpc' = [fpc EXCEPT ![t] = "awaitFetch"]
            /\ requests' = [requests EXCEPT ![t] = Append(@, NextOffset(res[t].data))]
       ELSE /\ fpc' = [fpc EXCEPT ![t] = "resolved"]
            /\ UNCHANGED requests
    /\ UNCHANGED <<pc, apiKey, now, server, res, inputVars, aggVars, exitVars>>

\* Promise.all resolves: the five arrays, the match-type lookup, and the call
\* of calculateSinglesStandings
AllResolved ==
    /\ pc = "fetching"
    /\ \A t \in TableSet : fpc[t] = "resolved"
    /\ players' = allRecords["PLAYERS"]
    /\ matches' = allRecords["MATCHES"]
    /\ doublesTeams' = allRecords["DOUBLES_TEAMS"]
    /\ doublesMatches' = allRecords["DOUBLES_MATCHES"]
    /\ matchTypes' = allRecords["MATCH_TYPES"]
    /\ matchTypesMap' = BuildMap(allRecords["MATCH_TYPES"])
    /\ pc' = "singles_filter"
    /\ UNCHANGED <<apiKey, now, server, fetchVars, aggVars, exitVars>>

(***************************************************************************)
(* Actions of the two aggregators                                          *)
(***************************************************************************)
\* one call of the filter callback m => isWithinWindow(m.fields['Date']);
\* a date that is not falsy makes getCutoffDate read the clock
FilterStep(list) ==
    /\ fi <= Len(list)
    /\ fi' = fi + 1
    /\ IF Falsy(DateOf(list[fi]))
       THEN /\ activeMatches' = Append(activeMatches, list[fi])
            /\ UNCHANGED <<now, cutoffs>>
       ELSE \E n \in ClockReads(now) :
            /\ now' = n
            /\ cutoffs' = Append(cutoffs, getCutoffDate(n))
            /\ activeMatches' = IF isWithinWindow(DateOf(list[fi]), n)
                                THEN Append(activeMatches, list[fi])
                                ELSE activeMatches

\* the filter is over; the maps start at 0 for every entity
InitStep(list, entities) ==
    /\ fi > Len(list)
    /\ pointsMap' = ZeroMap(entities)
    /\ winsMap' = ZeroMap(entities)
    /\ lossesMap' = ZeroMap(entities)
    /\ ai' = 1

\* one call of the forEach callback
AccStep(winField, loseField) ==
    /\ ai <= Len(activeMatches)
    /\ LET acc == ApplyMatch([points |-> pointsMap, wins |-> winsMap, losses |-> lossesMap],
                             activeMatches[ai], matchTypesMap, winField, loseField)
       IN /\ pointsMap' = acc.points
          /\ winsMap' = acc.wins
          /\ lossesMap' = acc.losses
    /\ ai' = ai + 1

\* entities.map(...), standings.sort(...), return standings
Standings(entities, nameField) ==
    SortStandings(Rows(entities,
                       [points |-> pointsMap, wins |-> winsMap, losses |-> lossesMap],
                       nameField))

SinglesFilter ==
    /\ pc = "singles_filter"
    /\ FilterStep(matches)
    /\ UNCHANGED <<pc, apiKey, server, fetchVars, inputVars, ai, pointsMap, winsMap,
                   lossesMap, singlesStandings, doublesStandings, exitVars>>

SinglesInit ==
    /\ pc = "singles_filter"
    /\ InitStep(matches, players)
    /\ pc' = "singles_acc"
    /\ UNCHANGED <<apiKey, now, server, fetchVars, inputVars, fi, activeMatches, cutoffs,
                   singlesStandings, doublesStandings, exitVars>>

SinglesAcc ==
    /\ pc = "singles_acc"
    /\ AccStep("Winner(s)", "Loser(s)")
    /\ UNCHANGED <<pc, apiKey, now, server, fetchVars, inputVars, fi, activeMatches,
                   cutoffs, singlesStandings, doublesStandings, exitVars>>

\* calculateSinglesStandings returns and calculateDoublesStandings is called
SinglesReturn ==
    /\ pc = "singles_acc"
    /\ ai > Len(activeMatches)
    /\ singlesStandings' = Standings(players, "Name")
    /\ pc' = "doubles_filter"
    /\ fi' = 1
    /\ activeMatches' = << >>
    /\ cutoffs' = << >>
    /\ UNCHANGED <<apiKey, now, server, fetchVars, inputVars, ai, pointsMap, winsMap,
                   lossesMap, doublesStandings, exitVars>>

DoublesFilter ==
    /\ pc = "doubles_filter"
    /\ FilterStep(doublesMatches)
    /\ UNCHANGED <<pc, apiKey, server, fetchVars, inputVars, ai, pointsMap, winsMap,
                   lossesMap, singlesStandings, doublesStandings, exitVars>>

DoublesInit ==
    /\ pc = "doubles_filter"
    /\ InitStep(doublesMatches, doublesTeams)
    /\ pc' = "doubles_acc"
    /\ UNCHANGED <<apiKey, now, server, fetchVars, inputVars, fi, activeMatches, cutoffs,
                   singlesStandings, doublesStandings, exitVars>>

DoublesAcc ==
    /\ pc = "doubles_acc"
    /\ AccStep("Winner Team", "Loser Team")
    /\ UNCHANGED <<pc, apiKey, now, server, fetchVars, inputVars, fi, activeMatches,
                   cutoffs, singlesStandings, doublesStandings, exitVars>>

DoublesReturn ==
    /\ pc = "doubles_acc"
    /\ ai > Len(activeMatches)
    /\ doublesStandings' = Standings(doublesTeams, "Team Name")
    /\ pc' = "assemble"
    /\ UNCHANGED <<apiKey, now, server, fetchVars, inputVars, fi, ai, activeMatches,
                   cutoffs, pointsMap, winsMap, lossesMap, singlesStandings, exitVars>>

(***************************************************************************)
(* The report                                                              *)
(***************************************************************************)
Output(clock) ==
    [generatedAt |-> clock,
     singles     |-> singlesStandings,
     doubles     |-> doublesStandings,
     matchTypes  |-> matchTypeInfo(matchTypes)]

\* the rest of main: the document is built and written, or mkdirSync /
\* writeFileSync throws and the catch handler exits with status 1
Assemble ==
    /\ pc = "assemble"
    /\ pc' = "exit"
    /\ \E n \in ClockReads(now) :
        /\ now' = n
        /\ \/ /\ outFile' = [kind |-> "file", doc |-> Output(n)]
              /\ exitCode' = 0
              /\ err' = NoError
           \/ /\ outFile' = outFile
              /\ exitCode' = 1
              /\ err' = [message |-> <<"EACCES">>]
    /\ UNCHANGED <<apiKey, server, fetchVars, inputVars, aggVars, rejection>>

(***************************************************************************)
(* Inputs                                                                  *)
(***************************************************************************)
Ana == <<"A", "n", "a">>

Ben == <<"B", "e", "n">>

ana == <<"a", "n", "a">>

Iso(y, m, d, t) == [kind |-> "iso", y |-> y, m |-> m, d |-> d, t |-> t]

\* 2024-08-31 and 2025-03-15, at the start of the day
Clocks == {[y |-> 2024, mo |-> 7, d |-> 31, t |-> 0],
           [y |-> 2025, mo |-> 2, d |-> 15, t |-> 0]}

Entity(id, nameField, names) ==
    [id |-> id, fields |-> IF names = << >> THEN EmptyMap ELSE (nameField :> names[1])]

\* entity lists: names given as << >> (no name field) or <<name>>
EntityLists(nameField) ==
    { << >>,
      <<Entity("e1", nameField, <<Ben>>), Entity("e2", nameField, <<Ana>>)>>,
      <<Entity("e1", nameField, <<ana>>), Entity("e2", nameField, <<Ana>>)>>,
      <<Entity("e1", nameField, << >>), Entity("e2", nameField, << << >> >>),
        Entity("e3", nameField, <<Ana>>)>>,
      <<Entity("e1", nameField, <<Ben>>), Entity("e2", nameField, <<Ben>>),
        Entity("e3", nameField, <<Ana>>)>> }

MatchType(id, points, active, names) ==
    [id |-> id,
     fields |-> (IF points = << >> THEN EmptyMap ELSE ("Default Points Awarded" :> points[1]))
             @@ (IF active = << >> THEN EmptyMap ELSE ("Is Active" :> active[1]))
             @@ (IF names.id = << >> THEN EmptyMap ELSE ("Id" :> names.id[1]))
             @@ (IF names.mt = << >> THEN EmptyMap ELSE ("Match Type" :> names.mt[1]))]

NoNames == [id |-> << >>, mt |-> << >>]

\* the match types of the aggregation runs: 10, 5 and 4 points, and one
\* without a point value
AggTypes ==
    <<MatchType("mt10", <<10>>, <<TRUE>>, NoNames), MatchType("mt5", <<5>>, <<TRUE>>, NoNames),
      MatchType("mt4", <<4>>, << >>, NoNames), MatchType("mt0", << >>, <<TRUE>>, NoNames)>>

\* a match without its id: date (Undefined: no Date field), type, winners and
\* losers given as << >> (field absent) or <<list>>
Shape(date, type, w, l) == [date |-> date, type |-> type, w |-> w, l |-> l]

Match(id, sh, winField, loseField) ==
    [id |-> id,
     fields |-> (IF sh.date.kind = "undefined" THEN EmptyMap ELSE ("Date" :> sh.date))
             @@ (IF sh.type = << >> THEN EmptyMap ELSE ("Match Type" :> sh.type[1]))
             @@ (IF sh.w = << >> THEN EmptyMap ELSE (winField :> sh.w[1]))
             @@ (IF sh.l = << >> THEN EmptyMap ELSE (loseField :> sh.l[1]))]

\* dated matches around the cutoff 2024-03-02 of the first clock; all of them
\* are older than the cutoff 2024-09-15 of the second
DatedShapes ==
    { Shape(d, << <<"mt10">> >>, << <<"e1">> >>, << <<"e2">> >>) :
        d \in {Iso(2024, 3, 2, 0), Iso(2024, 3, 31, 0), Iso(2024, 1, 31, 0),
               [kind |-> "bad"]} }

\* undated matches: unresolvable types, and the scoring cases
ScoreShapes ==
    { Shape(Undefined, ty, << <<"e1">> >>, << <<"e2">> >>) :
        ty \in {<< >>, << << >> >>, << <<"mtX">> >>} }
    \cup
    { Shape(Undefined, << <<"mt10">> >>, wl[1], wl[2]) :
        wl \in { << << <<"e1">> >>, << >> >>,
                 << << <<"e1">> >>, << <<"e1">> >> >>,
                 << << <<"e2", "e2">> >>, << >> >>,
                 << << <<"eX", "e2">> >>, << <<"e1">> >> >> } }
    \cup
    { Shape(Undefined, ty, << >>, << <<"e1">> >>) :
        ty \in {<< <<"mt5", "mt10">> >>, << <<"mt4">> >>} }
    \cup
    { Shape(Undefined, << <<"mt0">> >>, << <<"e2">> >>, << <<"e1">> >>) }

Shapes == DatedShapes \cup ScoreShapes

MatchIds == [i \in 1..(MaxMatches + 1) |-> <<"m", i>>]

\* match lists of at most MaxMatches matches, ids by position
MatchLists(winField, loseField) ==
    UNION { { [i \in 1..n |-> Match(MatchIds[i], shs[i], winField, loseField)] :
                shs \in [1..n -> Shapes] } : n \in 0..MaxMatches }

OnePage(records) == <<[records |-> records, offset |-> Null]>>

\* the state main is in when Promise.all has resolved with these tables
Fetched(tables) ==
    /\ apiKey = [kind |-> "string"]
    /\ server = [t \in TableSet |-> OnePage(tables[t])]
    /\ fpc = [t \in TableSet |-> "resolved"]
    /\ offset = [t \in TableSet |-> Null]
    /\ allRecords = tables
    /\ res = [t \in TableSet |-> [ok |-> TRUE, data |-> OnePage(tables[t])[1]]]
    /\ requests = [t \in TableSet |-> <<Null>>]
    /\ players = tables["PLAYERS"]
    /\ matches = tables["MATCHES"]
    /\ doublesTeams = tables["DOUBLES_TEAMS"]
    /\ doublesMatches = tables["DOUBLES_MATCHES"]
    /\ matchTypes = tables["MATCH_TYPES"]
    /\ matchTypesMap = BuildMap(tables["MATCH_TYPES"])
    /\ outFile = NoFile
    /\ rejection = NoError
    /\ exitCode = -1
    /\ err = NoError

Tables(p, m, dt, dm, mt) ==
    ("PLAYERS" :> p) @@ ("MATCHES" :> m) @@ ("DOUBLES_TEAMS" :> dt)
        @@ ("DOUBLES_MATCHES" :> dm) @@ ("MATCH_TYPES" :> mt)

NoLocals ==
    /\ fi = 1
    /\ ai = 1
    /\ activeMatches = << >>
    /\ cutoffs = << >>
    /\ pointsMap = EmptyMap
    /\ winsMap = EmptyMap
    /\ lossesMap = EmptyMap
    /\ singlesStandings = << >>
    /\ doublesStandings = << >>

(***************************************************************************)
(* SpecAgg: the two aggregators on drawn inputs                            *)
(***************************************************************************)
InitAgg ==
    /\ now \in Clocks
    /\ NoLocals
    /\ \/ /\ pc = "singles_filter"
          /\ \E e \in EntityLists("Name"), m \in MatchLists("Winner(s)", "Loser(s)") :
                Fetched(Tables(e, m, << >>, << >>, AggTypes))
       \/ /\ pc = "doubles_filter"
          /\ \E e \in EntityLists("Team Name"), m \in MatchLists("Winner Team", "Loser Team") :
                Fetched(Tables(<< >>, << >>, e, m, AggTypes))

NextAgg ==
    \/ SinglesFilter
    \/ SinglesInit
    \/ SinglesAcc
    \/ SinglesReturn
    \/ DoublesFilter
    \/ DoublesInit
    \/ DoublesAcc
    \/ DoublesReturn

SpecAgg == InitAgg /\ [][NextAgg]_vars

(***************************************************************************)
(* Spec: one run of main against a service holding these five tables, cut  *)
(* into pages of one size                                                  *)
(***************************************************************************)
RunTables ==
    Tables(<<Entity("e1", "Name", <<Ben>>), Entity("e2", "Name", <<Ana>>),
             Entity("e3", "Name", << >>)>>,
           <<Match(<<"m", 1>>, Shape(Iso(2024, 3, 2, 0), << <<"mt10">> >>,
                                     << <<"e1">> >>, << <<"e2">> >>),
                   "Winner(s)", "Loser(s)"),
             Match(<<"m", 2>>, Shape(Undefined, << <<"mt5">> >>,
                                     << <<"e2">> >>, << <<"e1">> >>),
                   "Winner(s)", "Loser(s)")>>,
           <<Entity("t1", "Team Name", <<ana>>)>>,
           <<Match(<<"d", 1>>, Shape(Iso(2024, 3, 31, 0), << <<"mt10">> >>,
                                     << <<"t1">> >>, << >>),
                   "Winner Team", "Loser Team")>>,
           <<MatchType("mt10", <<10>>, <<TRUE>>, [id |-> << <<"B">> >>, mt |-> << >>]),
             MatchType("mt5", <<5>>, << >>, NoNames)>>)

Init ==
    /\ pc = "start"
    /\ apiKey \in {[kind |-> "undefined"], [kind |-> "empty"], [kind |-> "string"]}
    /\ now = [y |-> 2024, mo |-> 7, d |-> 31, t |-> 0]
    /\ \E size \in 1..MaxPageSize :
          server = [t \in TableSet |-> Paginate(RunTables[t], size, 1)]
    /\ fpc = [t \in TableSet |-> "idle"]
    /\ offset = [t \in TableSet |-> Null]
    /\ allRecords = [t \in TableSet |-> << >>]
    /\ res = [t \in TableSet |-> Null]
    /\ requests = [t \in TableSet |-> << >>]
    /\ players = << >>
    /\ matches = << >>
    /\ doublesTeams = << >>
    /\ doublesMatches = << >>
    /\ matchTypes = << >>
    /\ matchTypesMap = EmptyMap
    /\ NoLocals
    /\ outFile = NoFile
    /\ rejection = NoError
    /\ exitCode = -1
    /\ err = NoError

Next ==
    \/ MainStart
    \/ \E t \in TableSet : FetchResponse(t)
    \/ \E t \in TableSet : FetchThrow(t)
    \/ MainCatch
    \/ \E t \in TableSet : FetchJson(t)
    \/ AllResolved
    \/ SinglesFilter
    \/ SinglesInit
    \/ SinglesAcc
    \/ SinglesReturn
    \/ DoublesFilter
    \/ DoublesInit
    \/ DoublesAcc
    \/ DoublesReturn
    \/ Assemble

Spec == Init /\ [][Next]_vars

(***************************************************************************)
(* SpecReport: the report on drawn match types                             *)
(***************************************************************************)
TypeSamples(id) ==
    { MatchType(id, p, a, n) :
        p \in {<< >>, <<5>>, <<10>>},
        a \in {<< >>, <<TRUE>>, <<FALSE>>},
        n \in {[id |-> << <<"A">> >>, mt |-> << <<"B">> >>],
               [id |-> << << >> >>, mt |-> << <<"B">> >>],
               [id |-> << >>, mt |-> << >>]} }

TypeIds == [i \in 1..(MaxTypes + 1) |-> <<"mt", i>>]

TypeLists ==
    UNION { { ts \in [1..n -> UNION {TypeSamples(TypeIds[i]) : i \in 1..n}] :
                \A i \in 1..n : ts[i].id = TypeIds[i] } : n \in 0..MaxTypes }

InitReport ==
    /\ pc = "assemble"
    /\ now \in Clocks
    /\ NoLocals
    /\ \E ts \in TypeLists : Fetched(Tables(<< >>, << >>, << >>, << >>, ts))

NextReport == Assemble

SpecReport == InitReport /\ [][NextReport]_vars

(***************************************************************************)
(* Vocabulary of the properties                                            *)
(***************************************************************************)
Ids(entities) == {entities[i].id : i \in DOMAIN entities}

\* how many times id occurs in list
Occ(list, id) == Cardinality({i \in DOMAIN list : list[i] = id})

SeqBag(s) == [x \in Range(s) |-> Cardinality({i \in DOMAIN s : s[i] = x})]

CurAcc == [points |-> pointsMap, wins |-> winsMap, losses |-> lossesMap]

\* the match has no match-type list, an empty one, or a first id that the
\* lookup does not hold
Unresolvable(m) ==
    \/ "Match Type" \notin DOMAIN m.fields
    \/ m.fields["Match Type"] = << >>
    \/ m.fields["Match Type"][1] \notin {matchTypes[i].id : i \in DOMAIN matchTypes}

Resolvable(m) == ~Unresolvable(m)

\* the point value of the match type of a resolvable match
PointsOf(m) ==
    LET k == CHOOSE i \in DOMAIN matchTypes :
                /\ matchTypes[i].id = m.fields["Match Type"][1]
                /\ \A j \in DOMAIN matchTypes : matchTypes[j].id = matchTypes[i].id => j <= i
    IN IF "Default Points Awarded" \in DOMAIN matchTypes[k].fields
       THEN matchTypes[k].fields["Default Points Awarded"] ELSE 0

\* the integer nearest to p / 10, the upper one of two that are equally near
RoundTenth(p) == CHOOSE g \in 0..p : 10 * g - 5 <= p /\ p < 10 * g + 5

RECURSIVE AccAfter(_, _, _, _)
AccAfter(acc, list, winField, loseField) ==
    IF list = << >> THEN acc
    ELSE AccAfter(ApplyMatch(acc, Head(list), matchTypesMap, winField, loseField),
                  Tail(list), winField, loseField)

ZeroAcc(entities) ==
    [points |-> ZeroMap(entities), wins |-> ZeroMap(entities), losses |-> ZeroMap(entities)]

\* the forEach callback is about to run on match m of the singles / doubles list
SinglesOn(m) == pc = "singles_acc" /\ ai <= Len(activeMatches) /\ m = activeMatches[ai]

DoublesOn(m) == pc = "doubles_acc" /\ ai <= Len(activeMatches) /\ m = activeMatches[ai]

AllIds == {"e1", "e2", "e3", "eX"}

(***************************************************************************)
(* C1: the standings hold exactly one row per entity of the entity list,   *)
(* with the entity's name and the values of the maps at its id; an entity  *)
(* named in no match has a row of zeros; ids that only matches name get no *)
(* row.                                                                    *)
(***************************************************************************)
RowsOfEntities(st, entities, nameField, list, winField, loseField) ==
    /\ Len(st) = Len(entities)
    /\ SeqBag(st) = SeqBag([i \in DOMAIN entities |->
                              [name   |-> IF nameField \in DOMAIN entities[i].fields
                                             /\ entities[i].fields[nameField] # << >>
                                          THEN entities[i].fields[nameField] ELSE Unknown,
                               points |-> Get(pointsMap, entities[i].id),
                               wins   |-> Get(winsMap, entities[i].id),
                               losses |-> Get(lossesMap, entities[i].id)]])
    /\ \A i \in DOMAIN entities :
          (\A k \in DOMAIN list :
              /\ Occ(ListField(list[k], winField), entities[i].id) = 0
              /\ Occ(ListField(list[k], loseField), entities[i].id) = 0)
          => \E j \in DOMAIN st :
                st[j].points = 0 /\ st[j].wins = 0 /\ st[j].losses = 0

\* C1: exactly one row per entity, zeros for an entity in no match, no row for
\* an id that only matches name
C1_OneRowPerEntity ==
    /\ pc = "doubles_filter" =>
          RowsOfEntities(singlesStandings, players, "Name", matches, "Winner(s)", "Loser(s)")
    /\ pc = "assemble" =>
          RowsOfEntities(doublesStandings, doublesTeams, "Team Name", doublesMatches,
                         "Winner Team", "Loser Team")

\* three players, one of them in no match, and an id outside the player list
\* that the maps have accumulated
C1_Witness ==
    /\ pc = "doubles_filter"
    /\ Len(players) = 3
    /\ Len(singlesStandings) = 3
    /\ \E id \in DOMAIN pointsMap : id \notin Ids(players) /\ pointsMap[id] > 0
    /\ \E j \in DOMAIN singlesStandings : singlesStandings[j].points > 0

(***************************************************************************)
(* C2: a match whose type cannot be resolved changes nothing: at every     *)
(* point of the forEach loop the three maps equal those computed from the  *)
(* resolvable matches alone.                                               *)
(***************************************************************************)
\* C2: the maps are those computed without the matches whose type cannot be
\* resolved
C2_UnresolvedSkipped ==
    /\ pc = "singles_acc" =>
          CurAcc = AccAfter(ZeroAcc(players),
                            SelectSeq(SubSeq(activeMatches, 1, ai - 1), Resolvable),
                            "Winner(s)", "Loser(s)")
    /\ pc = "doubles_acc" =>
          CurAcc = AccAfter(ZeroAcc(doublesTeams),
                            SelectSeq(SubSeq(activeMatches, 1, ai - 1), Resolvable),
                            "Winner Team", "Loser Team")

\* the loop has run over a match without type list and a match of unknown
\* type, both with a winner, and no team has a win
C2_Witness ==
    /\ pc = "doubles_acc"
    /\ ai > Len(activeMatches)
    /\ \E k \in DOMAIN activeMatches :
          /\ "Match Type" \notin DOMAIN activeMatches[k].fields
          /\ ListField(activeMatches[k], "Winner Team") # << >>
    /\ \E k \in DOMAIN activeMatches :
          /\ Unresolvable(activeMatches[k])
          /\ "Match Type" \in DOMAIN activeMatches[k].fields
          /\ ListField(activeMatches[k], "Winner Team") # << >>
    /\ DOMAIN winsMap # {}
    /\ winsMap = [id \in DOMAIN winsMap |-> 0]

(***************************************************************************)
(* C3: one cutoff per aggregation: when the filter of the singles matches  *)
(* is over there is an instant c, six months before a reading of the clock,*)
(* such that a match was kept exactly if it has no date or its date is at  *)
(* or after c.                                                             *)
(***************************************************************************)
Kept(m) == \E k \in DOMAIN activeMatches : activeMatches[k] = m

\* the cutoffs of the readings the clock can give on the day of the run
DayCutoffs == {getCutoffDate([now EXCEPT !.t = t]) : t \in 0..MaxTick}

\* the date is one Date can parse, and it is at or after c
AtOrAfter(dateStr, c) ==
    /\ dateStr.kind = "iso"
    /\ \/ dateStr.y > c.y
       \/ dateStr.y = c.y /\ dateStr.m - 1 > c.mo
       \/ dateStr.y = c.y /\ dateStr.m - 1 = c.mo /\ dateStr.d > c.d
       \/ dateStr.y = c.y /\ dateStr.m - 1 = c.mo /\ dateStr.d = c.d /\ dateStr.t >= c.t

\* C3: every match of the aggregation is kept or dropped against one and the
\* same cutoff
C3_SingleCutoff ==
    pc = "singles_acc" =>
        \E c \in DayCutoffs :
            \A i \in DOMAIN matches :
                Kept(matches[i]) <=>
                    \/ "Date" \notin DOMAIN matches[i].fields
                    \/ AtOrAfter(matches[i].fields["Date"], c)

(***************************************************************************)
(* C4 as stated: every id of the winner list of a resolved match gains     *)
(* exactly P points and one win by that match; with one winner and no      *)
(* loser every other id keeps its points, wins and losses.                 *)
(***************************************************************************)
WinnerGain(m, winners, losers) ==
    /\ \A id \in Range(winners) :
          /\ Get(pointsMap', id) = Get(pointsMap, id) + PointsOf(m)
          /\ Get(winsMap', id) = Get(winsMap, id) + 1
    /\ (Len(winners) = 1 /\ losers = << >>) =>
          \A id \in AllIds \ Range(winners) :
              /\ Get(pointsMap', id) = Get(pointsMap, id)
              /\ Get(winsMap', id) = Get(winsMap, id)
              /\ Get(lossesMap', id) = Get(lossesMap, id)

\* C4 as stated: every winner of a resolved match gains exactly P points and
\* one win
C4_Original ==
    [][\A m \in Range(activeMatches) :
          /\ (SinglesOn(m) /\ Resolvable(m)) =>
                WinnerGain(m, ListField(m, "Winner(s)"), ListField(m, "Loser(s)"))
          /\ (DoublesOn(m) /\ Resolvable(m)) =>
                WinnerGain(m, ListField(m, "Winner Team"), ListField(m, "Loser Team"))]_vars

(***************************************************************************)
(* C4 amended: a resolved match of point value P adds P points and one win *)
(* to an id for each time the winner list names it, and nothing else       *)
(* unless the loser list names the id too (then round(P/10) points, and a  *)
(* loss, per naming); with one winner and no loser every other id keeps    *)
(* its points, wins and losses.                                            *)
(***************************************************************************)
WinnerGainPerOccurrence(m, winners, losers) ==
    /\ \A id \in AllIds :
          /\ Get(pointsMap', id) = Get(pointsMap, id) + PointsOf(m) * Occ(winners, id)
                                     + RoundTenth(PointsOf(m)) * Occ(losers, id)
          /\ Get(winsMap', id) = Get(winsMap, id) + Occ(winners, id)
    /\ (Len(winners) = 1 /\ losers = << >>) =>
          \A id \in AllIds \ Range(winners) :
              /\ Get(pointsMap', id) = Get(pointsMap, id)
              /\ Get(winsMap', id) = Get(winsMap, id)
              /\ Get(lossesMap', id) = Get(lossesMap, id)

\* C4 amended: P points and one win per naming in the winner list, the loser
\* share if the loser list names the id too
C4_WinnerGain ==
    [][\A m \in Range(activeMatches) :
          /\ (SinglesOn(m) /\ Resolvable(m)) =>
                WinnerGainPerOccurrence(m, ListField(m, "Winner(s)"), ListField(m, "Loser(s)"))
          /\ (DoublesOn(m) /\ Resolvable(m)) =>
                WinnerGainPerOccurrence(m, ListField(m, "Winner Team"),
                                        ListField(m, "Loser Team"))]_vars

\* two matches of 10 points were counted: e1 won the first alone, without a
\* loser, and won and lost the second
C4_Witness ==
    /\ pc = "singles_acc"
    /\ ai = 3
    /\ Len(activeMatches) = 2
    /\ Resolvable(activeMatches[1]) /\ Resolvable(activeMatches[2])
    /\ activeMatches[1].fields = ("Match Type" :> <<"mt10">>) @@ ("Winner(s)" :> <<"e1">>)
    /\ ListField(activeMatches[2], "Winner(s)") = <<"e1">>
    /\ ListField(activeMatches[2], "Loser(s)") = <<"e1">>
    /\ Get(pointsMap, "e1") = 21
    /\ Get(winsMap, "e1") = 2

(***************************************************************************)
(* C5 as stated: every id of the loser list of a resolved match gains      *)
(* exactly round(P/10) points and one loss by that match, and no win.      *)
(***************************************************************************)
LoserGain(m, losers) ==
    \A id \in Range(losers) :
        /\ Get(pointsMap', id) = Get(pointsMap, id) + RoundTenth(PointsOf(m))
        /\ Get(lossesMap', id) = Get(lossesMap, id) + 1
        /\ Get(winsMap', id) = Get(winsMap, id)

\* C5 as stated: every loser of a resolved match gains exactly round(P/10)
\* points and one loss, and no win
C5_Original ==
    [][\A m \in Range(activeMatches) :
          /\ (SinglesOn(m) /\ Resolvable(m)) => LoserGain(m, ListField(m, "Loser(s)"))
          /\ (DoublesOn(m) /\ Resolvable(m)) => LoserGain(m, ListField(m, "Loser Team"))]_vars

(***************************************************************************)
(* C5 amended: a resolved match of point value P >= 0 adds round(P/10)     *)
(* points (half rounds up: 10 gives 1, 5 gives 1, 4 gives 0) and one loss  *)
(* to an id for each time the loser list names it; the id's wins change    *)
(* only if the winner list names it too (then P points and a win per       *)
(* naming).                                                                *)
(***************************************************************************)
LoserGainPerOccurrence(m, winners, losers) ==
    /\ RoundTenth(10) = 1 /\ RoundTenth(5) = 1 /\ RoundTenth(4) = 0
    /\ \A id \in AllIds :
          /\ Get(pointsMap', id) = Get(pointsMap, id) + PointsOf(m) * Occ(winners, id)
                                     + RoundTenth(PointsOf(m)) * Occ(losers, id)
          /\ Get(lossesMap', id) = Get(lossesMap, id) + Occ(losers, id)
          /\ Occ(winners, id) = 0 => Get(winsMap', id) = Get(winsMap, id)

\* C5 amended: round(P/10) points and one loss per naming in the loser list,
\* wins unchanged unless the winner list names the id too
C5_LoserGain ==
    [][\A m \in Range(activeMatches) :
          /\ (SinglesOn(m) /\ Resolvable(m)) =>
                LoserGainPerOccurrence(m, ListField(m, "Winner(s)"), ListField(m, "Loser(s)"))
          /\ (DoublesOn(m) /\ Resolvable(m)) =>
                LoserGainPerOccurrence(m, ListField(m, "Winner Team"),
                                       ListField(m, "Loser Team"))]_vars

\* e1 lost a match of 5 points and a match of 10 points, and has 2 points
C5_Witness ==
    /\ pc = "singles_acc"
    /\ ai = 3
    /\ Len(activeMatches) = 2
    /\ Resolvable(activeMatches[1]) /\ Resolvable(activeMatches[2])
    /\ PointsOf(activeMatches[1]) = 5
    /\ PointsOf(activeMatches[2]) = 10
    /\ ListField(activeMatches[1], "Loser(s)") = <<"e1">>
    /\ ListField(activeMatches[2], "Loser(s)") = <<"e1">>
    /\ Occ(ListField(activeMatches[2], "Winner(s)"), "e1") = 0
    /\ Get(pointsMap, "e1") = 2
    /\ Get(lossesMap, "e1") = 2
    /\ Get(winsMap, "e1") = 0

(***************************************************************************)
(* C6: the standings are ordered: of two adjacent rows the first has more  *)
(* points, or the same points and a name that compares less than or equal; *)
(* with no match every row has 0 points.                                   *)
(***************************************************************************)
Ordered(st) ==
    \A i \in 1..(Len(st) - 1) :
        \/ st[i].points > st[i + 1].points
        \/ st[i].points = st[i + 1].points /\ localeCompare(st[i].name, st[i + 1].name) <= 0

\* C6: adjacent rows are in descending order of points, ties in ascending
\* order of name
C6_Sorted ==
    /\ Ordered(singlesStandings)
    /\ Ordered(doublesStandings)
    /\ (pc = "doubles_filter" /\ matches = << >>) =>
          \A j \in DOMAIN singlesStandings : singlesStandings[j].points = 0
    /\ (pc = "assemble" /\ doublesMatches = << >>) =>
          \A j \in DOMAIN doublesStandings : doublesStandings[j].points = 0

\* no match: Ben, Ben, Ana comes out as Ana, Ben, Ben
C6_Witness ==
    /\ pc = "doubles_filter"
    /\ matches = << >>
    /\ Len(players) = 3
    /\ "Name" \in DOMAIN players[1].fields
    /\ players[1].fields["Name"] = Ben
    /\ [j \in DOMAIN singlesStandings |-> singlesStandings[j].name] = <<Ana, Ben, Ben>>

(***************************************************************************)
(* C7: every airtableFetch asks for the first page without a cursor and    *)
(* for each further page with the cursor of the page before, after that    *)
(* page arrived; it holds the records of the pages that arrived, in order, *)
(* and returns the whole table when a page without cursor arrived;         *)
(* whatever the other four fetches do.                                     *)
(***************************************************************************)
RECURSIVE Flatten(_)
Flatten(pages) ==
    IF pages = << >> THEN << >> ELSE Head(pages).records \o Flatten(Tail(pages))

\* the number of pages whose records the fetch of t has taken
PagesTaken(t) ==
    IF fpc[t] = "resolved" THEN Len(requests[t])
    ELSE IF fpc[t] = "idle" THEN 0 ELSE Len(requests[t]) - 1

\* C7: each fetch follows the cursors page after page and returns its own
\* table, whole and in order
C7_FetchComplete ==
    \A t \in TableSet :
        /\ Len(requests[t]) <= Len(server[t])
        /\ \A k \in DOMAIN requests[t] :
              requests[t][k] = IF k = 1 THEN Null ELSE server[t][k - 1].offset
        /\ \A k \in DOMAIN requests[t] : k > 1 => requests[t][k] # Null
        /\ allRecords[t] = Flatten(SubSeq(server[t], 1, PagesTaken(t)))
        /\ fpc[t] = "resolved" =>
              /\ allRecords[t] = RunTables[t]
              /\ server[t][Len(requests[t])].offset = Null
        /\ pc \notin {"start", "fetching", "exit"} =>
              /\ players = RunTables["PLAYERS"]
              /\ matches = RunTables["MATCHES"]
              /\ doublesTeams = RunTables["DOUBLES_TEAMS"]
              /\ doublesMatches = RunTables["DOUBLES_MATCHES"]
              /\ matchTypes = RunTables["MATCH_TYPES"]

\* the fetch of the players has returned its three pages while the fetch of
\* the matches waits for its second page and that of the match types for its
\* first
C7_Witness ==
    /\ pc = "fetching"
    /\ fpc["PLAYERS"] = "resolved"
    /\ Len(requests["PLAYERS"]) = 3
    /\ allRecords["PLAYERS"] = RunTables["PLAYERS"]
    /\ fpc["MATCHES"] = "awaitFetch"
    /\ Len(requests["MATCHES"]) = 2
    /\ fpc["MATCH_TYPES"] = "awaitFetch"
    /\ Len(requests["MATCH_TYPES"]) = 1

(***************************************************************************)
(* C8: once a page request was answered with a non-success status no       *)
(* aggregation runs and the file is never written; the run can only end    *)
(* with exit status 1 and the error of such an answer, status and body,    *)
(* whatever the other fetches still do before the exit; the file is        *)
(* written only when all five fetches have returned.                       *)
(***************************************************************************)
Failed(t) == res[t] \in Failures

\* C8: after a non-success answer no file is written and the run ends with
\* status 1 and that error
C8_FailureAborts ==
    /\ (\E t \in TableSet : Failed(t)) =>
          /\ pc \in {"fetching", "exit"}
          /\ outFile = NoFile
          /\ singlesStandings = << >> /\ doublesStandings = << >>
          /\ pc = "exit" =>
                /\ exitCode = 1
                /\ \E t \in TableSet :
                      /\ Failed(t)
                      /\ fpc[t] = "rejected"
                      /\ err = [message |-> <<"Airtable error", res[t].status, res[t].text>>]
    /\ (\E t \in TableSet : fpc[t] = "rejected") => rejection # NoError /\ exitCode # 0
    /\ outFile # NoFile => \A t \in TableSet : fpc[t] = "resolved" /\ ~Failed(t)

\* the fetch of the matches threw on a 404, then the fetch of the players took
\* its first page and asked for the second, and the fetch of the teams threw
\* on a 500; the run ended with the error of the 404
C8_Witness ==
    /\ pc = "exit"
    /\ exitCode = 1
    /\ outFile = NoFile
    /\ fpc["MATCHES"] = "rejected"
    /\ res["MATCHES"].status = 404
    /\ err = [message |-> <<"Airtable error", 404, "gone">>]
    /\ fpc["DOUBLES_TEAMS"] = "rejected"
    /\ res["DOUBLES_TEAMS"].status = 500
    /\ fpc["PLAYERS"] = "awaitFetch"
    /\ Len(requests["PLAYERS"]) = 2
    /\ fpc["MATCH_TYPES"] = "resolved"

(***************************************************************************)
(* C9: without a credential no request is ever issued and no file is       *)
(* written, and the run can only end with exit status 1 and the            *)
(* configuration error.                                                    *)
(***************************************************************************)
\* C9: without credential no request, no file, exit status 1
C9_NoCredentialNoFetch ==
    apiKey.kind \in {"undefined", "empty"} =>
        /\ \A t \in TableSet : requests[t] = << >> /\ fpc[t] = "idle"
        /\ outFile = NoFile
        /\ pc \in {"start", "exit"}
        /\ pc = "exit" => exitCode = 1 /\ err = KeyError

C9_Witness ==
    /\ apiKey.kind = "undefined"
    /\ pc = "exit"
    /\ exitCode = 1
    /\ err = KeyError

(***************************************************************************)
(* C10: the matchTypes list of the written document has one entry per      *)
(* match type whose active flag is set, and no other, in ascending order   *)
(* of the point value (0 when missing), each with that point value and the *)
(* name from Id, else from Match Type, else Unknown.                       *)
(***************************************************************************)
ExpectedTypeRow(mt) ==
    [name   |-> IF "Id" \in DOMAIN mt.fields /\ mt.fields["Id"] # << >>
                THEN mt.fields["Id"]
                ELSE IF "Match Type" \in DOMAIN mt.fields /\ mt.fields["Match Type"] # << >>
                THEN mt.fields["Match Type"]
                ELSE Unknown,
     points |-> IF "Default Points Awarded" \in DOMAIN mt.fields
                THEN mt.fields["Default Points Awarded"] ELSE 0]

ActiveFlagSet(mt) == "Is Active" \in DOMAIN mt.fields /\ mt.fields["Is Active"]

\* C10: the document lists the active match types, and only them, in ascending
\* order of points
C10_ActiveTypesListed ==
    outFile # NoFile =>
        LET info == outFile.doc.matchTypes
            active == SelectSeq(matchTypes, ActiveFlagSet)
        IN /\ Len(info) = Len(active)
           /\ SeqBag(info) = SeqBag([i \in DOMAIN active |-> ExpectedTypeRow(active[i])])
           /\ \A i \in 1..(Len(info) - 1) : info[i].points <= info[i + 1].points

\* a type of 10 points before an inactive one and a type without point value:
\* the list is the nameless type with 0 points, then the 10 points
C10_Witness ==
    /\ outFile # NoFile
    /\ Len(matchTypes) = 2
    /\ ActiveFlagSet(matchTypes[1]) /\ ActiveFlagSet(matchTypes[2])
    /\ outFile.doc.matchTypes = <<[name |-> Unknown, points |-> 0],
                                  [name |-> <<"B">>, points |-> 10]>>

====
